---- MODULE Spec2Model ----
(***************************************************************************)
(* Media-ClearMind/server: the interview submission flow, the user's       *)
(* count and the collections it writes (users, interviews, face_analysis,  *)
(* emotion_averages, results), as a state machine over the document store. *)
(*                                                                         *)
(* The store is MongoDB: a multi-document transaction buffers its writes   *)
(* until commitTransaction, reads from the snapshot taken at its first     *)
(* operation, and a write to a document that another open transaction has  *)
(* written (or that changed after the snapshot) fails with WriteConflict.  *)
(* A write outside a transaction waits for the open transaction that holds *)
(* the document.                                                           *)
(***************************************************************************)
EXTENDS Integers, Sequences, FiniteSets, TLC

\* ------------------------------------------------------------------ bounds
MaxReq == 2          \* number of HTTP requests in a run (all may overlap)
MaxSamples == 6      \* longest analysis_results handed to the aggregation

Req == 1..MaxReq

\* ------------------------------------------------------- program constants
QACount == 3         \* isArray({ min: 3, max: 3 })
MinOrder == 1        \* isInt({ min: 1, max: 3 })
MaxOrder == 3
MinScore == 0        \* isInt({ min: 0, max: 100 })
MaxScore == 100
MinAnalyses == 1     \* isArray({ min: 1 })
RequiredAnalyses == 6   \* required_analyses: 6

\* accounts: u1 and u2 have a User row; the token of "gone" is still valid
\* but its User row does not exist (account closed)
Users == {"u1", "u2"}
Requesters == Users \cup {"gone"}

\* ------------------------------------------------------- request payloads
\* questions_answers is represented by its order values, analysis_results by
\* the length of each sample's result array
Body(o, s, a) == [orders |-> o, score |-> s, analysis |-> a]

Bodies ==
  { Body(<<1, 2, 3>>, 85, <<1, 1, 1, 1, 1, 1>>),   \* valid, six samples
    Body(<<2, 1, 3>>, 70, <<1, 1, 1, 1, 1>>), \* valid, permuted, five samples
    Body(<<1, 1, 2>>, 85, <<1>>),         \* duplicated order
    Body(<<1, 2>>, 85, <<1>>),            \* two Q&A entries only
    Body(<<1, 2, 4>>, 85, <<1>>),         \* order out of range
    Body(<<1, 2, 3>>, 101, <<1>>),        \* score out of range
    Body(<<1, 2, 3>>, 85, <<>>),          \* no analysis sample
    Body(<<1, 2, 3>>, 85, <<1, 0>>) }     \* a sample with an empty result array

NoBody == Body(<<>>, 0, <<>>)

\* (variant: a session counts as completed above the required number)
SessionStatusAbove(n) ==
  IF n > RequiredAnalyses THEN "completed" ELSE "in_progress"

\* analyses.length >= 6 ? 'completed' : 'in_progress'
SessionStatus(n) ==
  IF n >= RequiredAnalyses THEN "completed" ELSE "in_progress"

\* a query and its answer: the view, who asked for which count (0 = the view
\* takes none), the HTTP status, the interview row and the average row found
\* (each named by the request that wrote it, 0 = null), the number of
\* analysis rows, the status field ("none" = the answer has none) and the
\* sessions a list view returns
Response(v, u, c, st, i, n, s, a, g) ==
  [view |-> v, user |-> u, count |-> c, status |-> st, interview |-> i,
   total_analyses |-> n, state |-> s, average |-> a, sessions |-> g]

\* one session of a list view
Session(c, i, n, s, a) ==
  [count |-> c, interview |-> i, total_analyses |-> n, state |-> s,
   average |-> a]

\* the answer of GET /api/analysis/combined
Data(u, c, st, i, n, a) ==
  Response("combined", u, c, st, i, n,
           IF st = 200 THEN SessionStatus(n) ELSE "none", a, {})
NoData == Data("u1", 0, 0, 0, 0, 0)

Range(s) == { s[i] : i \in DOMAIN s }

\* ------------------------------------------------------------------- state
VARIABLES
  users,        \* User collection: [Users -> count]
  interviews,   \* Interview collection: rows [user, count, orders, by]
  analyses,     \* face_analysis collection: rows [user, count, idx, by]
  averages,     \* emotion_averages collection: rows [id, count, by]
  results,      \* Result collection: rows [user, count, by]
  kind,         \* per request: the handler serving it ("none" = not issued)
  who,          \* per request: req.user.user_id
  body,         \* per request: req.body
  pc,           \* per request: position in the handler
  cnt,          \* per request: user.count returned by the increment (0 = none)
  status,       \* per request: HTTP status of the response (0 = none yet)
  snap,         \* per request: emotion_averages as of its snapshot
  target,       \* per request: id of the average row its upsert updates
  resp,         \* the latest query and its response
  incBy,        \* submissions whose count increment is in the store
  avgBy,        \* submissions whose average upsert is in the store
  fault,        \* requests that ended because a store operation threw
  analysisResults,  \* updateEmotionAverage alone: its argument
  averageDoc,       \* updateEmotionAverage alone: the document it stored
  reqBody,          \* the submit handler alone: req.body
  outcome,          \* the submit handler alone: its answer and its Interview
  strictQuery,      \* the build: Mongoose drops filter fields the schema lacks
  userDocs,         \* User collection as registration sees it: rows
                    \* [email, kakaoId, by]
  reqQuery,         \* GET /analysis/history alone: req.query
  reqHeader,        \* the auth middleware alone: the Authorization header
  txn               \* per request: its transaction ("none", "open",
                    \* "committed", "aborted")

vars == << users, interviews, analyses, averages, results, kind, who, body,
           pc, cnt, status, snap, target, resp, incBy, avgBy, fault,
           analysisResults, averageDoc, reqBody, outcome, strictQuery,
           userDocs, reqQuery, reqHeader, txn >>

\* what the handlers of the other routes work on
ext == << strictQuery, userDocs, reqQuery, reqHeader, txn >>

\* the variables of the functions that are run on their own
alone == << analysisResults, averageDoc, reqBody, outcome >>

\* the variables of the functions that are run on their own
calc == << analysisResults, averageDoc, reqBody, outcome, ext >>

\* no document
NoDoc == [f \in {} |-> 0]

store == << users, interviews, analyses, averages, results >>

Booted ==
  /\ users = [u \in Users |-> 0]
  /\ interviews = {}
  /\ analyses = {}
  /\ averages = {}
  /\ results = {}
  /\ kind = [r \in Req |-> "none"]
  /\ who = [r \in Req |-> "u1"]
  /\ body = [r \in Req |-> NoBody]
  /\ pc = [r \in Req |-> "idle"]
  /\ cnt = [r \in Req |-> 0]
  /\ status = [r \in Req |-> 0]
  /\ snap = [r \in Req |-> {}]
  /\ target = [r \in Req |-> 0]
  /\ resp = NoData
  /\ incBy = {}
  /\ avgBy = {}
  /\ fault = {}
  /\ strictQuery = FALSE
  /\ userDocs = {}
  /\ reqQuery = NoDoc
  /\ reqHeader = NoDoc
  /\ txn = [r \in Req |-> "none"]

Init ==
  /\ Booted
  /\ analysisResults = <<>>
  /\ averageDoc = NoDoc
  /\ reqBody = NoDoc
  /\ outcome = NoDoc

\* ------------------------------------------------------------- validation
\* (variant: analysis_results only has to be an array)
ValidSubmissionAnyLength(b) ==
  /\ Len(b.orders) = QACount
  /\ \A i \in DOMAIN b.orders : b.orders[i] \in MinOrder..MaxOrder
  /\ b.score \in MinScore..MaxScore

\* validationRules.submission of the submit with analysis data
ValidSubmission(b) ==
  /\ Len(b.orders) = QACount
  /\ \A i \in DOMAIN b.orders : b.orders[i] \in MinOrder..MaxOrder
  /\ b.score \in MinScore..MaxScore
  /\ Len(b.analysis) >= MinAnalyses

\* validationRules.submission of the Q&A-only submit
ValidSubmissionQA(b) ==
  /\ Len(b.orders) = QACount
  /\ \A i \in DOMAIN b.orders : b.orders[i] \in MinOrder..MaxOrder
  /\ b.score \in MinScore..MaxScore

\* new Set(questions_answers.map(qa => qa.order)).size !== 3
DuplicateOrders(b) == Cardinality(Range(b.orders)) # 3

\* analysis.result[0] is undefined for an empty result array, and reading
\* its face_confidence throws
MalformedSample(b) == \E i \in DOMAIN b.analysis : b.analysis[i] = 0

\* questions_answers.sort((a, b) => a.order - b.order): a stable sort
RECURSIVE InsertSorted(_, _)
InsertSorted(x, s) ==
  IF s = <<>> THEN <<x>>
  ELSE IF x < Head(s) THEN <<x>> \o s
  ELSE <<Head(s)>> \o InsertSorted(x, Tail(s))

RECURSIVE SortByOrder(_)
SortByOrder(s) ==
  IF s = <<>> THEN <<>>
  ELSE InsertSorted(s[Len(s)], SortByOrder(SubSeq(s, 1, Len(s) - 1)))

\* ------------------------------------------------------------ transactions
TxKinds == {"submit", "submitQA"}
OpenPcs == {"inc", "avg", "ana", "int"}

InTransaction(r) == kind[r] \in TxKinds /\ pc[r] \in OpenPcs

\* (variant: the increment is not serialised on the User document)
UserLockedNever(u, r) == FALSE

\* another open transaction has written the User document of u
UserLocked(u, r) ==
  \E q \in Req \ {r} : InTransaction(q) /\ who[q] = u /\ cnt[q] > 0

\* no handler is between two store operations
Quiescent == \A r \in Req : pc[r] \in {"idle", "done"}

\* requests are issued in the order of their numbers
Fresh(r) == kind[r] = "none" /\ \A q \in Req : q < r => kind[q] # "none"

Issue(r, k, u, b) ==
  /\ kind' = [kind EXCEPT ![r] = k]
  /\ who' = [who EXCEPT ![r] = u]
  /\ body' = [body EXCEPT ![r] = b]

\* the handler goes on to its next store operation
Goto(r, p) ==
  /\ pc' = [pc EXCEPT ![r] = p]
  /\ UNCHANGED status

\* res.status(code).json(...); finally session.endSession()
Respond(r, code) ==
  /\ status' = [status EXCEPT ![r] = code]
  /\ pc' = [pc EXCEPT ![r] = "done"]
  /\ snap' = [snap EXCEPT ![r] = {}]
  /\ target' = [target EXCEPT ![r] = 0]

\* the rows a submission writes
InterviewRow(r) ==
  [user |-> who[r], count |-> cnt[r], orders |-> SortByOrder(body[r].orders),
   by |-> r]

AnalysisRows(r) ==
  { [user |-> who[r], count |-> cnt[r], idx |-> i, by |-> r] :
      i \in DOMAIN body[r].analysis }

\* EmotionAverage.updateOne({ count }, { $set: newAverage }, { upsert: true })
\* applied to the collection: the matched row is replaced, or a row is inserted
UpsertAverage(r) ==
  IF target[r] = 0
  THEN averages \cup
         {[id |-> Cardinality(averages) + 1, count |-> cnt[r], by |-> r]}
  ELSE { IF a.id = target[r] THEN [a EXCEPT !.by = r] ELSE a : a \in averages }

\* the first row (in insertion order) a filter { count } matches
FirstMatch(rows, c) ==
  CHOOSE a \in rows : a.count = c /\ \A x \in rows : x.count = c => a.id <= x.id

\* the rows the filter { count } matches in the transaction's snapshot
Matching(r) == { a \in snap[r] : a.count = cnt[r] }

\* the matched row changed after the snapshot, or another open transaction
\* has a pending update of it
AverageConflict(r, a) ==
  \/ a \notin averages
  \/ \E q \in Req \ {r} :
       /\ kind[q] = "submit" /\ pc[q] \in {"avg", "ana", "int"}
       /\ target[q] = a.id

\* session.commitTransaction(): every buffered write becomes visible at once
CommitTransaction(r) ==
  /\ users' = [users EXCEPT ![who[r]] = cnt[r]]
  /\ incBy' = incBy \cup {r}
  /\ interviews' = interviews \cup {InterviewRow(r)}
  /\ IF kind[r] = "submit"
     THEN /\ analyses' = analyses \cup AnalysisRows(r)
          /\ averages' = UpsertAverage(r)
          /\ avgBy' = avgBy \cup {r}
     ELSE UNCHANGED << analyses, averages, avgBy >>
  /\ UNCHANGED << results, fault >>

\* ------------------------------------- POST /api/interviews/submit (analysis)
\* validateRequest answers 400 before the handler runs
SubmitReject(r) ==
  /\ Fresh(r)
  /\ \E u \in Requesters, b \in Bodies :
       /\ ~ValidSubmission(b)
       /\ Issue(r, "submit", u, b)
  /\ Respond(r, 400)
  /\ UNCHANGED << store, cnt, resp, incBy, avgBy, fault >>
  /\ UNCHANGED calc

\* (variant: the increment is issued without the session option)
SubmitIncNoSession(r) ==
  /\ Fresh(r)
  /\ \E u \in Requesters, b \in Bodies :
       /\ ValidSubmission(b)
       /\ Issue(r, "submit", u, b)
       /\ IF u \notin Users
          THEN /\ Respond(r, 500)
               /\ UNCHANGED << users, cnt, incBy >>
          ELSE /\ ~UserLocked(u, r)
               /\ users' = [users EXCEPT ![u] = users[u] + 1]
               /\ incBy' = incBy \cup {r}
               /\ cnt' = [cnt EXCEPT ![r] = users[u] + 1]
               /\ snap' = [snap EXCEPT ![r] = averages]
               /\ Goto(r, "inc")
               /\ UNCHANGED target
  /\ UNCHANGED << interviews, analyses, averages, results, resp, avgBy,
                  fault >>
  /\ UNCHANGED calc

\* startTransaction; User.findByIdAndUpdate($inc count, { new: true, session })
SubmitInc(r) ==
  /\ Fresh(r)
  /\ \E u \in Requesters, b \in Bodies :
       /\ ValidSubmission(b)
       /\ Issue(r, "submit", u, b)
       /\ IF u \notin Users \/ UserLocked(u, r)
          THEN \* user is null (user.count throws) or WriteConflict: catch
               /\ Respond(r, 500)
               /\ UNCHANGED cnt
          ELSE /\ cnt' = [cnt EXCEPT ![r] = users[u] + 1]
               /\ snap' = [snap EXCEPT ![r] = averages]
               /\ Goto(r, "inc")
               /\ UNCHANGED target
  /\ UNCHANGED << store, resp, incBy, avgBy, fault >>
  /\ UNCHANGED calc

\* updateEmotionAverage(analysis_results, user.count, session)
SubmitAverage(r) ==
  /\ kind[r] = "submit" /\ pc[r] = "inc"
  /\ IF MalformedSample(body[r])
     THEN Respond(r, 500)
     ELSE IF Matching(r) = {}
     THEN /\ Goto(r, "avg")
          /\ UNCHANGED << snap, target >>
     ELSE IF AverageConflict(r, FirstMatch(snap[r], cnt[r]))
     THEN Respond(r, 500)
     ELSE /\ target' = [target EXCEPT ![r] = FirstMatch(snap[r], cnt[r]).id]
          /\ Goto(r, "avg")
          /\ UNCHANGED snap
  /\ UNCHANGED << store, kind, who, body, cnt, resp, incBy, avgBy, fault >>
  /\ UNCHANGED calc

\* (variant: the samples are saved without the session option)
SubmitAnalysesNoSession(r) ==
  /\ kind[r] = "submit" /\ pc[r] = "avg"
  /\ analyses' = analyses \cup AnalysisRows(r)
  /\ Goto(r, "ana")
  /\ UNCHANGED << users, interviews, averages, results, kind, who, body, cnt,
                  snap, target, resp, incBy, avgBy, fault >>
  /\ UNCHANGED calc

\* analysis.save({ session }) for every sample, awaited together
SubmitAnalyses(r) ==
  /\ kind[r] = "submit" /\ pc[r] = "avg"
  /\ Goto(r, "ana")
  /\ UNCHANGED << store, kind, who, body, cnt, snap, target, resp, incBy,
                  avgBy, fault >>
  /\ UNCHANGED calc

\* interview.save({ session })
SubmitInterview(r) ==
  /\ kind[r] = "submit" /\ pc[r] = "ana"
  /\ Goto(r, "int")
  /\ UNCHANGED << store, kind, who, body, cnt, snap, target, resp, incBy,
                  avgBy, fault >>
  /\ UNCHANGED calc

\* session.commitTransaction(); res.status(201)
SubmitCommit(r) ==
  /\ kind[r] = "submit" /\ pc[r] = "int"
  /\ CommitTransaction(r)
  /\ Respond(r, 201)
  /\ UNCHANGED << kind, who, body, cnt, resp >>
  /\ UNCHANGED calc

\* a store operation or the commit throws: catch, abortTransaction, 500
SubmitError(r) ==
  /\ kind[r] = "submit" /\ pc[r] \in OpenPcs
  /\ Respond(r, 500)
  /\ UNCHANGED << store, kind, who, body, cnt, resp, incBy, avgBy >>
  /\ fault' = fault \cup {r}
  /\ UNCHANGED calc

\* ------------------------------------- POST /api/interviews/submit (Q&A only)
\* validateRequest answers 400; the handler answers 400 for duplicate orders
\* after abortTransaction, before any store operation
SubmitQAReject(r) ==
  /\ Fresh(r)
  /\ \E u \in Requesters, b \in Bodies :
       /\ ~ValidSubmissionQA(b) \/ DuplicateOrders(b)
       /\ Issue(r, "submitQA", u, b)
  /\ Respond(r, 400)
  /\ UNCHANGED << store, cnt, resp, incBy, avgBy, fault >>
  /\ UNCHANGED calc

\* User.findByIdAndUpdate($inc count, { new: true, session }); 404 if null
SubmitQAInc(r) ==
  /\ Fresh(r)
  /\ \E u \in Requesters, b \in Bodies :
       /\ ValidSubmissionQA(b) /\ ~DuplicateOrders(b)
       /\ Issue(r, "submitQA", u, b)
       /\ IF u \notin Users
          THEN /\ Respond(r, 404)
               /\ UNCHANGED cnt
          ELSE IF UserLocked(u, r)
          THEN /\ Respond(r, 500)
               /\ UNCHANGED cnt
          ELSE /\ cnt' = [cnt EXCEPT ![r] = users[u] + 1]
               /\ Goto(r, "inc")
               /\ UNCHANGED << snap, target >>
  /\ UNCHANGED << store, resp, incBy, avgBy, fault >>
  /\ UNCHANGED calc

\* interview.save({ session })
SubmitQAInterview(r) ==
  /\ kind[r] = "submitQA" /\ pc[r] = "inc"
  /\ Goto(r, "int")
  /\ UNCHANGED << store, kind, who, body, cnt, snap, target, resp, incBy,
                  avgBy, fault >>
  /\ UNCHANGED calc

\* session.commitTransaction(); res.status(201)
SubmitQACommit(r) ==
  /\ kind[r] = "submitQA" /\ pc[r] = "int"
  /\ CommitTransaction(r)
  /\ Respond(r, 201)
  /\ UNCHANGED << kind, who, body, cnt, resp >>
  /\ UNCHANGED calc

\* a store operation or the commit throws: catch, abortTransaction, 500
SubmitQAError(r) ==
  /\ kind[r] = "submitQA" /\ pc[r] \in OpenPcs
  /\ Respond(r, 500)
  /\ UNCHANGED << store, kind, who, body, cnt, resp, incBy, avgBy >>
  /\ fault' = fault \cup {r}
  /\ UNCHANGED calc

\* ------------------------- POST /api/interviews/submit (without transaction)
\* User.findByIdAndUpdate($inc count, { new: true }): written at once; a null
\* user makes user.count throw
LegacyInc(r) ==
  /\ Fresh(r)
  /\ \E u \in Requesters, b \in Bodies :
       /\ Issue(r, "submitLegacy", u, b)
       /\ IF u \notin Users
          THEN /\ Respond(r, 500)
               /\ UNCHANGED << users, cnt, incBy >>
          ELSE /\ ~UserLocked(u, r)
               /\ users' = [users EXCEPT ![u] = users[u] + 1]
               /\ cnt' = [cnt EXCEPT ![r] = users[u] + 1]
               /\ incBy' = incBy \cup {r}
               /\ Goto(r, "inc")
               /\ UNCHANGED << snap, target >>
  /\ UNCHANGED << interviews, analyses, averages, results, resp, avgBy,
                  fault >>
  /\ UNCHANGED calc

\* (variant: the row is numbered one above the count the increment returned)
LegacySaveAhead(r) ==
  /\ kind[r] = "submitLegacy" /\ pc[r] = "inc"
  /\ interviews' = interviews \cup
       {[user |-> who[r], count |-> cnt[r] + 1, orders |-> body[r].orders,
         by |-> r]}
  /\ Respond(r, 201)
  /\ UNCHANGED << users, analyses, averages, results, kind, who, body, cnt,
                  resp, incBy, avgBy, fault >>
  /\ UNCHANGED calc

\* interview.save(): questions_answers stored as sent; 201
LegacySave(r) ==
  /\ kind[r] = "submitLegacy" /\ pc[r] = "inc"
  /\ interviews' = interviews \cup
       {[user |-> who[r], count |-> cnt[r], orders |-> body[r].orders, by |-> r]}
  /\ Respond(r, 201)
  /\ UNCHANGED << users, analyses, averages, results, kind, who, body, cnt,
                  resp, incBy, avgBy, fault >>
  /\ UNCHANGED calc

\* interview.save() throws: 500
LegacyError(r) ==
  /\ kind[r] = "submitLegacy" /\ pc[r] = "inc"
  /\ Respond(r, 500)
  /\ UNCHANGED << store, kind, who, body, cnt, resp, incBy, avgBy >>
  /\ fault' = fault \cup {r}
  /\ UNCHANGED calc

\* ------------------------------------------ POST /api/users/increment-count
\* User.findByIdAndUpdate($inc count, { new: true, select: 'count' })
IncrementCount(r) ==
  /\ Fresh(r)
  /\ \E u \in Requesters :
       /\ Issue(r, "incrementCount", u, NoBody)
       /\ IF u \notin Users
          THEN /\ Respond(r, 404)
               /\ UNCHANGED << users, cnt >>
          ELSE /\ ~UserLocked(u, r)
               /\ users' = [users EXCEPT ![u] = users[u] + 1]
               /\ cnt' = [cnt EXCEPT ![r] = users[u] + 1]
               /\ Respond(r, 200)
  /\ UNCHANGED << interviews, analyses, averages, results, resp, incBy,
                  avgBy, fault >>
  /\ UNCHANGED calc

\* ------------------------------------------------ GET /api/analysis/combined
FindInterview(u, c) == { i \in interviews : i.user = u /\ i.count = c }
FindAnalyses(u, c) == { a \in analyses : a.user = u /\ a.count = c }

\* EmotionAverage.findOne({ count: count }): the row's source, 0 for null
FindAverage(c) ==
  IF \E a \in averages : a.count = c THEN FirstMatch(averages, c).by ELSE 0

\* (variant: the combined view answers 200 whatever it found)
CombinedAlways(u, c) ==
  Data(u, c, 200,
       IF FindInterview(u, c) = {} THEN 0
       ELSE (CHOOSE i \in FindInterview(u, c) : TRUE).by,
       Cardinality(FindAnalyses(u, c)),
       FindAverage(c))

\* Promise.all of the three finds; 404 when neither interview nor analyses
Combined(u, c) ==
  IF FindInterview(u, c) = {} /\ FindAnalyses(u, c) = {}
  THEN Data(u, c, 404, 0, 0, 0)
  ELSE Data(u, c, 200,
            IF FindInterview(u, c) = {} THEN 0
            ELSE (CHOOSE i \in FindInterview(u, c) : TRUE).by,
            Cardinality(FindAnalyses(u, c)),
            FindAverage(c))

\* a query answers and leaves everything else as it is
Answer(r) ==
  /\ resp' = r
  /\ UNCHANGED << store, kind, who, body, pc, cnt, status, snap, target,
                  incBy, avgBy, fault >>
  /\ UNCHANGED calc

\* (variant: the combined view counts its calls on the User document)
GetCombinedCounted(u, c) ==
  /\ resp' = Combined(u, c)
  /\ users' = [x \in Users |-> IF x = u THEN users[x] + 1 ELSE users[x]]
  /\ UNCHANGED << interviews, analyses, averages, results, kind, who, body,
                  pc, cnt, status, snap, target, incBy, avgBy, fault >>
  /\ UNCHANGED calc

GetCombined(u, c) == Answer(Combined(u, c))

\* ------------------------------- GET /api/analysis/current/:interview_count
\* (variant: every session that has analyses reads as completed)
CurrentAsCompleted(u, c) ==
  IF FindAnalyses(u, c) = {}
  THEN Response("current", u, c, 404, 0, 0, "none", 0, {})
  ELSE Response("current", u, c, 200, 0, Cardinality(FindAnalyses(u, c)),
                "completed", FindAverage(c), {})

\* the two finds; 404 when the user has no analysis of that count
Current(u, c) ==
  IF FindAnalyses(u, c) = {}
  THEN Response("current", u, c, 404, 0, 0, "none", 0, {})
  ELSE Response("current", u, c, 200, 0, Cardinality(FindAnalyses(u, c)),
                SessionStatus(Cardinality(FindAnalyses(u, c))),
                FindAverage(c), {})

GetCurrent(u, c) == Answer(Current(u, c))

\* ------------------------------------------------ GET /api/interviews/detail
\* 404 when the user has no interview of that count; analysis_info is null or
\* carries the status 'pending' (analysisSchema has no path result, so
\* analysis.result?.status is undefined)
Detail(u, c) ==
  IF FindInterview(u, c) = {}
  THEN Response("detail", u, c, 404, 0, 0, "none", 0, {})
  ELSE Response("detail", u, c, 200,
                (CHOOSE i \in FindInterview(u, c) : TRUE).by, 0,
                IF FindAnalyses(u, c) = {} THEN "none" ELSE "pending", 0, {})

GetDetail(u, c) == Answer(Detail(u, c))

\* --------------------------------------------------- GET /api/results/:count
\* 404 when the user has no result of that count
Result(u, c) ==
  IF { x \in results : x.user = u /\ x.count = c } = {}
  THEN Response("result", u, c, 404, 0, 0, "none", 0, {})
  ELSE Response("result", u, c, 200,
                (CHOOSE x \in results : x.user = u /\ x.count = c).by,
                0, "none", 0, {})

GetResult(u, c) == Answer(Result(u, c))

\* ------------------------------------------------- GET /api/analysis/history
\* the counts under which the user has analysis rows
AnalysedCounts(u) == { a.count : a \in { x \in analyses : x.user = u } }

\* the user's analysis rows grouped by count (first page, no period: the page
\* of 20 rows holds every row of a run), each group with its status and the
\* average found for its count
GroupedAnalyses(u) ==
  { Session(c, 0, Cardinality(FindAnalyses(u, c)),
            SessionStatus(Cardinality(FindAnalyses(u, c))), FindAverage(c)) :
      c \in AnalysedCounts(u) }

History(u) ==
  Response("history", u, 0, 200, 0, Cardinality({ x \in analyses : x.user = u }),
           "none", 0, GroupedAnalyses(u))

GetHistory(u) == Answer(History(u))

\* ---------------------------------------------- GET /api/analysis/statistics
\* total_analyses, and per count the number of rows, whether it counts as a
\* completed interview, and the average of emotion_trends
Statistics(u) ==
  Response("statistics", u, 0, 200, 0,
           Cardinality({ x \in analyses : x.user = u }), "none", 0,
           GroupedAnalyses(u))

GetStatistics(u) == Answer(Statistics(u))

\* ----------------------------------------------- GET /api/interviews/history
\* the user's interviews (first page)
InterviewHistory(u) ==
  Response("interviews", u, 0, 200, 0, 0, "none", 0,
           { Session(i.count, i.by, 0, "none", 0) :
               i \in { x \in interviews : x.user = u } })

GetInterviewHistory(u) == Answer(InterviewHistory(u))

\* ------------------------------------------------ updateEmotionAverage alone
\* numbers are counted in units of 1/10000, so that 9800 is 0.98
EmotionKeys ==
  {"angry", "disgust", "fear", "happy", "neutral", "sad", "surprise"}

ConfidenceDigits == 2   \* averageConfidence.toFixed(2)
EmotionDigits == 3      \* (total / numResults).toFixed(3)

\* analysis.result[0] of one sample
Sample(c, e) == [face_confidence |-> c, emotion |-> e]

Calm ==
  [k \in EmotionKeys |->
     IF k = "neutral" THEN 9000 ELSE IF k = "happy" THEN 1000 ELSE 0]
Tense ==
  [k \in EmotionKeys |->
     IF k = "angry" THEN 1234 ELSE IF k = "fear" THEN 5555
     ELSE IF k = "sad" THEN 3211 ELSE 0]
CalmNoFear == [k \in EmotionKeys \ {"fear"} |-> Calm[k]]

Samples ==
  { Sample(9800, Calm), Sample(9900, Tense), Sample(9700, Calm),
    Sample(9800, CalmNoFear) }

\* analysis_results of 1..MaxSamples samples (the validation refuses none)
SampleLists == UNION { [1..n -> Samples] : n \in MinAnalyses..MaxSamples }

RECURSIVE Pow10(_)
Pow10(d) == IF d = 0 THEN 1 ELSE 10 * Pow10(d - 1)

\* total / n lies halfway between two multiples of 10^-d
Halfway(total, n, d) ==
  LET unit == Pow10(4 - d)
      below == (total \div (n * unit)) * unit
  IN 2 * (total - below * n) = n * unit

\* Number((total / n).toFixed(d)): the multiple of 10^-d nearest to the
\* quotient. toFixed takes the larger of two equally near multiples of the
\* double it is given; the double nearest to a quotient that lies halfway may
\* be on either side, and up says on which
ToFixed(total, n, d, up) ==
  LET unit == Pow10(4 - d)
      below == (total \div (n * unit)) * unit
      twice == 2 * (total - below * n)
  IN IF twice < n * unit THEN below
     ELSE IF twice > n * unit THEN below + unit
     ELSE IF up THEN below + unit ELSE below

\* totalConfidence += result.face_confidence over the first i samples
RECURSIVE TotalConfidence(_, _)
TotalConfidence(list, i) ==
  IF i = 0 THEN 0
  ELSE TotalConfidence(list, i - 1) + list[i].face_confidence

\* currentEmotions[k] over the first i samples: a sample contributes the keys
\* Object.entries(result.emotion) yields, and no other
RECURSIVE CurrentEmotion(_, _, _)
CurrentEmotion(list, k, i) ==
  IF i = 0 THEN 0
  ELSE CurrentEmotion(list, k, i - 1)
       + (IF k \in DOMAIN list[i].emotion THEN list[i].emotion[k] ELSE 0)

\* the keys of currentEmotions
SeenKeys(list) == UNION { DOMAIN list[i].emotion : i \in DOMAIN list }

\* the fields whose quotient lies halfway
Halfways(list) ==
  { k \in SeenKeys(list) :
      Halfway(CurrentEmotion(list, k, Len(list)), Len(list), EmotionDigits) }
  \cup (IF Halfway(TotalConfidence(list, Len(list)), Len(list),
                   ConfidenceDigits)
        THEN {"face_confidence"} ELSE {})

\* newAverage (without its date); ups: the halfway fields that round up
NewAverage(list, count, ups) ==
  [count |-> count,
   face_confidence |->
     ToFixed(TotalConfidence(list, Len(list)), Len(list), ConfidenceDigits,
             "face_confidence" \in ups),
   emotion |->
     [k \in SeenKeys(list) |->
        ToFixed(CurrentEmotion(list, k, Len(list)), Len(list), EmotionDigits,
                k \in ups)],
   total_analyses |-> Len(list)]

\* the paths of emotionAverageSchema
AveragePaths == {"count", "date", "face_confidence", "emotion"}

\* the update as the model casts it (strict schema): a path that the schema
\* does not declare is dropped from $set
CastAverage(doc) ==
  [f \in DOMAIN doc \cap AveragePaths |->
     IF f = "emotion"
     THEN [k \in DOMAIN doc.emotion \cap EmotionKeys |-> doc.emotion[k]]
     ELSE doc[f]]

\* updateEmotionAverage(analysisResults, 1, session) on an empty collection
UpdateEmotionAverage ==
  /\ averageDoc = NoDoc
  /\ analysisResults # <<>>
  /\ \E ups \in SUBSET Halfways(analysisResults) :
       averageDoc' = CastAverage(NewAverage(analysisResults, 1, ups))
  /\ UNCHANGED << store, kind, who, body, pc, cnt, status, snap, target, resp,
                  incBy, avgBy, fault, analysisResults, reqBody, outcome >>
  /\ UNCHANGED ext

InitAverage ==
  /\ Booted
  /\ analysisResults \in SampleLists
  /\ averageDoc = NoDoc
  /\ reqBody = NoDoc
  /\ outcome = NoDoc

SpecAverage == InitAverage /\ [][UpdateEmotionAverage]_vars

\* ---------------------------- POST /api/interviews/submit (analysis) alone
\* a submission as the spec shapes it: every questions_answers entry carries
\* a score, and mean_score (counted in tenths) may be declared; Absent stands
\* for a field that the payload does not carry
Absent == 0 - 1

ScoredBody(s, qs, m) ==
  [orders |-> <<2, 1, 3>>, score |-> s, analysis |-> <<1>>, scores |-> qs,
   mean_score |-> m]

ScoredBodies ==
  { ScoredBody(s, qs, m) :
      s \in {75, 101},
      qs \in {<<74, 82, 68>>, <<80, 80, 80>>, <<0, 0, 1>>, <<100, 99, 99>>},
      m \in {Absent, 3, 746, 747, 748, 749, 750, 800, 993} }

\* the paths of interviewSchema (the entries of questions_answers have the
\* paths question, answer and order)
InterviewPaths == {"user_id", "interview_count", "questions_answers", "score"}

\* new Interview({ user_id, interview_count, questions_answers, score }):
\* the handler reads questions_answers, score and analysis_results of the
\* body, and the strict schema keeps the declared paths
NewInterview(b, count) ==
  LET doc == [interview_count |-> count,
              questions_answers |-> SortByOrder(b.orders),
              score |-> b.score]
  IN [f \in DOMAIN doc \cap InterviewPaths |-> doc[f]]

\* the handler run for an existing user whose count is 0, on a store that
\* does not fail: 400 from validateRequest, or 201 and the Interview saved
SubmitAlone ==
  /\ outcome = NoDoc
  /\ reqBody # NoDoc
  /\ outcome' =
       IF ValidSubmission(reqBody)
       THEN [status |-> 201, interview |-> NewInterview(reqBody, 1),
             score |-> reqBody.score]
       ELSE [status |-> 400, interview |-> NoDoc]
  /\ UNCHANGED << store, kind, who, body, pc, cnt, status, snap, target, resp,
                  incBy, avgBy, fault, analysisResults, averageDoc, reqBody >>
  /\ UNCHANGED ext

InitAlone ==
  /\ Booted
  /\ analysisResults = <<>>
  /\ averageDoc = NoDoc
  /\ reqBody \in ScoredBodies
  /\ outcome = NoDoc

SpecAlone == InitAlone /\ [][SubmitAlone]_vars

\* ------------------------------------------------ DELETE /api/users/account
DeleteKinds == {"delete", "deleteTx"}

\* the rows of face_analysis that the filter { field: u } matches: a field
\* that is no path of the schema is dropped from the filter under strictQuery
\* (the filter is then empty and matches every row) and is otherwise sent to
\* the store, where no row has it; the paths are those of analysisSchema,
\* and the rows of the model carry userId as user
MatchesOwner(field, u) ==
  IF field \in {"userId", "count", "serverTimestamp", "analysis_result", "status"}
  THEN { a \in analyses : a.user = u }
  ELSE IF strictQuery THEN analyses ELSE {}

\* Analysis.deleteMany({ user_id: req.user.user_id })
DeleteManyField == "user_id"

\* the store before the run: every user has submitted one session
SeedCount == 1
SeedAnalyses(u) ==
  { [user |-> u, count |-> SeedCount, idx |-> i, by |-> 0] : i \in 1..2 }
SeedInterviews(u) ==
  { [user |-> u, count |-> SeedCount, orders |-> <<1, 2, 3>>, by |-> 0] }

\* no request has been issued
NoRequests ==
  /\ kind = [r \in Req |-> "none"]
  /\ who = [r \in Req |-> "u1"]
  /\ body = [r \in Req |-> NoBody]
  /\ pc = [r \in Req |-> "idle"]
  /\ cnt = [r \in Req |-> 0]
  /\ status = [r \in Req |-> 0]
  /\ snap = [r \in Req |-> {}]
  /\ target = [r \in Req |-> 0]
  /\ resp = NoData
  /\ incBy = {}
  /\ avgBy = {}
  /\ fault = {}
  /\ txn = [r \in Req |-> "none"]

\* the functions that are run on their own have not run
NotRun ==
  /\ analysisResults = <<>>
  /\ averageDoc = NoDoc
  /\ reqBody = NoDoc
  /\ outcome = NoDoc

\* session.startTransaction(), commitTransaction(), abortTransaction()
Transact(r, t) == txn' = [txn EXCEPT ![r] = t]

\* req.body.password is missing ("none"), not the user's or the user's;
\* the password check, User.findById and comparePassword: 400 without a
\* password, 500 when the user is gone (user.comparePassword throws on null),
\* 401 on a wrong password; only the catch branch aborts
DeleteAccount(r) ==
  /\ Fresh(r)
  /\ \E k \in DeleteKinds, u \in Users, p \in {"none", "wrong", "right"} :
       /\ Issue(r, k, u, [password |-> p])
       /\ IF p = "none"
          THEN /\ Respond(r, 400) /\ UNCHANGED fault
               /\ Transact(r, IF k = "deleteTx" THEN "open" ELSE "none")
          ELSE IF users[u] = Absent
          THEN /\ Respond(r, 500) /\ fault' = fault \cup {r}
               /\ Transact(r, IF k = "deleteTx" THEN "aborted" ELSE "none")
          ELSE IF p = "wrong"
          THEN /\ Respond(r, 401) /\ UNCHANGED fault
               /\ Transact(r, IF k = "deleteTx" THEN "open" ELSE "none")
          ELSE /\ Goto(r, "many") /\ UNCHANGED << snap, target, fault >>
               /\ Transact(r, IF k = "deleteTx" THEN "open" ELSE "none")
  /\ UNCHANGED << store, cnt, resp, incBy, avgBy >>
  /\ UNCHANGED << alone, strictQuery, userDocs, reqQuery,
                  reqHeader >>

\* Analysis.deleteMany: at once without a transaction, buffered within one,
\* where it waits while another deletion has written in its open transaction
DeleteMany(r) ==
  /\ kind[r] \in DeleteKinds /\ pc[r] = "many"
  /\ IF kind[r] = "delete"
     THEN analyses' = analyses \ MatchesOwner(DeleteManyField, who[r])
     ELSE /\ ~\E q \in Req \ {r} :
                 kind[q] = "deleteTx" /\ pc[q] \in {"user", "commit"}
          /\ UNCHANGED analyses
  /\ Goto(r, "user")
  /\ UNCHANGED << users, interviews, averages, results, kind, who, body, cnt,
                  snap, target, resp, incBy, avgBy, fault >>
  /\ UNCHANGED calc

\* User.findByIdAndDelete: without a transaction the row goes and the answer
\* is 200; within one the delete is buffered
DeleteUser(r) ==
  /\ kind[r] \in DeleteKinds /\ pc[r] = "user"
  /\ IF kind[r] = "delete"
     THEN /\ users' = [users EXCEPT ![who[r]] = Absent]
          /\ Respond(r, 200)
     ELSE /\ Goto(r, "commit")
          /\ UNCHANGED << users, snap, target >>
  /\ UNCHANGED << interviews, analyses, averages, results, kind, who, body,
                  cnt, resp, incBy, avgBy, fault >>
  /\ UNCHANGED calc

\* session.commitTransaction(): both deletes become visible; 200
DeleteCommit(r) ==
  /\ kind[r] = "deleteTx" /\ pc[r] = "commit"
  /\ analyses' = analyses \ MatchesOwner(DeleteManyField, who[r])
  /\ users' = [users EXCEPT ![who[r]] = Absent]
  /\ Respond(r, 200)
  /\ Transact(r, "committed")
  /\ UNCHANGED << interviews, averages, results, kind, who, body, cnt, resp,
                  incBy, avgBy, fault >>
  /\ UNCHANGED << alone, strictQuery, userDocs, reqQuery,
                  reqHeader >>

\* a store operation throws: catch, abortTransaction where there is one, 500
DeleteError(r) ==
  /\ kind[r] \in DeleteKinds /\ pc[r] \in {"many", "user", "commit"}
  /\ Respond(r, 500)
  /\ fault' = fault \cup {r}
  /\ Transact(r, IF kind[r] = "deleteTx" THEN "aborted" ELSE "none")
  /\ UNCHANGED << store, kind, who, body, cnt, resp, incBy, avgBy >>
  /\ UNCHANGED << alone, strictQuery, userDocs, reqQuery,
                  reqHeader >>

InitAccount ==
  /\ users = [u \in Users |-> SeedCount]
  /\ interviews = UNION { SeedInterviews(u) : u \in Users }
  /\ analyses = UNION { SeedAnalyses(u) : u \in Users }
  /\ averages = {[id |-> 1, count |-> SeedCount, by |-> 0]}
  /\ results = {}
  /\ NoRequests
  /\ NotRun
  /\ strictQuery \in BOOLEAN
  /\ userDocs = {}
  /\ reqQuery = NoDoc
  /\ reqHeader = NoDoc

NextAccount ==
  \E r \in Req :
    \/ DeleteAccount(r)
    \/ DeleteMany(r)
    \/ DeleteUser(r)
    \/ DeleteCommit(r)
    \/ DeleteError(r)

SpecAccount == InitAccount /\ [][NextAccount]_vars

\* ------------------------- POST /api/users/register and /kakao-login
\* email.toLowerCase(), and the schema's lowercase: true
Lower(e) == IF e = "A@x.io" THEN "a@x.io" ELSE e

\* what kapi.kakao.com answers for a token: the id, and the account's email
\* ("none" when the account shares none); or the Authorization header is
\* missing ("none"), or the token is not Kakao's ("bad")
KakaoProfiles ==
  { [token |-> "ok", kakaoId |-> "k1", email |-> "A@x.io"],
    [token |-> "ok", kakaoId |-> "k2", email |-> "none"] } \cup
  { [token |-> t, kakaoId |-> "none", email |-> "none"] : t \in {"none", "bad"} }

\* the User document the request saves; the email of a Kakao account is
\* kakaoEmail || `kakao_${kakaoUser.id}@kakao.com`
NewUser(r) ==
  IF kind[r] = "register"
  THEN [email |-> Lower(body[r].email), kakaoId |-> "none", by |-> r]
  ELSE [email |-> IF body[r].email # "none" THEN Lower(body[r].email)
                  ELSE IF body[r].kakaoId = "k1" THEN "kakao_k1@kakao.com"
                  ELSE "kakao_k2@kakao.com",
        kakaoId |-> body[r].kakaoId, by |-> r]

\* the unique index on email: a committed row has the key (E11000)
DuplicateKey(r) == \E x \in userDocs : x.email = NewUser(r).email

\* the unique index on email: another open transaction has inserted the key
\* and not committed yet (WriteConflict)
WriteConflict(r) ==
  \E q \in Req \ {r} :
    /\ kind[q] \in {"register", "kakao"} /\ pc[q] = "commit"
    /\ NewUser(q).email = NewUser(r).email

\* req.body.email has passed validation; startTransaction and
\* User.findOne({ email }): when a row is found, 400
\* 'Email already exists' is returned at once
Register(r) ==
  /\ Fresh(r)
  /\ \E e \in {"a@x.io", "A@x.io", "b@x.io"} :
       /\ Issue(r, "register", "u1", [email |-> e])
       /\ IF \E x \in userDocs : x.email = Lower(e)
          THEN Respond(r, 400)
          ELSE Goto(r, "save") /\ UNCHANGED << snap, target >>
  /\ Transact(r, "open")
  /\ UNCHANGED << store, cnt, resp, incBy, avgBy, fault >>
  /\ UNCHANGED << alone, strictQuery, userDocs, reqQuery,
                  reqHeader >>

\* user.save({ session }): the insert is buffered; an error is caught and the
\* transaction aborted, E11000 is answered 400 'Email already exists', any
\* other error 500 'Registration failed'
RegisterSave(r) ==
  /\ kind[r] = "register" /\ pc[r] = "save"
  /\ IF DuplicateKey(r) THEN Respond(r, 400) /\ Transact(r, "aborted")
     ELSE IF WriteConflict(r) THEN Respond(r, 500) /\ Transact(r, "aborted")
     ELSE Goto(r, "commit") /\ UNCHANGED << snap, target, txn >>
  /\ UNCHANGED << store, kind, who, body, cnt, resp, incBy, avgBy, fault >>
  /\ UNCHANGED << alone, strictQuery, userDocs, reqQuery,
                  reqHeader >>

\* session.commitTransaction(); 201
RegisterCommit(r) ==
  /\ kind[r] = "register" /\ pc[r] = "commit"
  /\ userDocs' = userDocs \cup {NewUser(r)}
  /\ Respond(r, 201)
  /\ Transact(r, "committed")
  /\ UNCHANGED << store, kind, who, body, cnt, resp, incBy, avgBy, fault >>
  /\ UNCHANGED << alone, strictQuery, reqQuery, reqHeader >>

\* the store throws for another reason: abort, 500
RegisterError(r) ==
  /\ kind[r] = "register" /\ pc[r] \in {"save", "commit"}
  /\ Respond(r, 500)
  /\ Transact(r, "aborted")
  /\ fault' = fault \cup {r}
  /\ UNCHANGED << store, kind, who, body, cnt, resp, incBy, avgBy >>
  /\ UNCHANGED << alone, strictQuery, userDocs, reqQuery,
                  reqHeader >>

\* startTransaction, the token, the fetch of the Kakao profile and
\* User.findOne({ kakaoId }): 400 at once without a token, abort and 400
\* when the fetch fails, commit and 200 for a known kakaoId
KakaoLogin(r) ==
  /\ Fresh(r)
  /\ \E p \in KakaoProfiles :
       /\ Issue(r, "kakao", "u1", p)
       /\ IF p.token = "none" THEN Respond(r, 400) /\ Transact(r, "open")
          ELSE IF p.token = "bad"
          THEN Respond(r, 400) /\ Transact(r, "aborted")
          ELSE IF \E x \in userDocs : x.kakaoId = p.kakaoId
          THEN Respond(r, 200) /\ Transact(r, "committed")
          ELSE /\ Goto(r, "save") /\ UNCHANGED << snap, target >>
               /\ Transact(r, "open")
  /\ UNCHANGED << store, cnt, resp, incBy, avgBy, fault >>
  /\ UNCHANGED << alone, strictQuery, userDocs, reqQuery,
                  reqHeader >>

\* user.save({ session }) of a first login; every error is caught, the
\* transaction aborted and the answer 400 'Kakao login failed'
KakaoSave(r) ==
  /\ kind[r] = "kakao" /\ pc[r] = "save"
  /\ IF DuplicateKey(r) \/ WriteConflict(r)
     THEN Respond(r, 400) /\ Transact(r, "aborted")
     ELSE Goto(r, "commit") /\ UNCHANGED << snap, target, txn >>
  /\ UNCHANGED << store, kind, who, body, cnt, resp, incBy, avgBy, fault >>
  /\ UNCHANGED << alone, strictQuery, userDocs, reqQuery,
                  reqHeader >>

\* jwt.sign, session.commitTransaction(); 200
KakaoCommit(r) ==
  /\ kind[r] = "kakao" /\ pc[r] = "commit"
  /\ userDocs' = userDocs \cup {NewUser(r)}
  /\ Respond(r, 200)
  /\ Transact(r, "committed")
  /\ UNCHANGED << store, kind, who, body, cnt, resp, incBy, avgBy, fault >>
  /\ UNCHANGED << alone, strictQuery, reqQuery, reqHeader >>

\* the store throws for another reason: abort, 400
KakaoError(r) ==
  /\ kind[r] = "kakao" /\ pc[r] \in {"save", "commit"}
  /\ Respond(r, 400)
  /\ Transact(r, "aborted")
  /\ fault' = fault \cup {r}
  /\ UNCHANGED << store, kind, who, body, cnt, resp, incBy, avgBy >>
  /\ UNCHANGED << alone, strictQuery, userDocs, reqQuery,
                  reqHeader >>

NextJoin ==
  \E r \in Req :
    \/ Register(r)
    \/ RegisterSave(r)
    \/ RegisterCommit(r)
    \/ RegisterError(r)
    \/ KakaoLogin(r)
    \/ KakaoSave(r)
    \/ KakaoCommit(r)
    \/ KakaoError(r)

SpecJoin == Init /\ [][NextJoin]_vars

\* ------------------------------------- GET /api/analysis/history, paginated
\* sort({ count: -1, serverTimestamp: -1 }); the samples of a session carry
\* increasing timestamps, so that idx orders them

RECURSIVE SortRows(_)
SortRows(S) ==
  IF S = {} THEN <<>>
  ELSE LET m == CHOOSE x \in S : \A y \in S \ {x} :
                  x.count > y.count \/ (x.count = y.count /\ x.idx > y.idx)
       IN <<m>> \o SortRows(S \ {m})

\* .skip(skip).limit(limit)
Paged(rows, skip, limit) ==
  IF skip >= Len(rows) THEN <<>>
  ELSE SubSeq(rows, skip + 1,
              IF skip + limit < Len(rows) THEN skip + limit ELSE Len(rows))

\* Object.keys / Object.entries of an object whose keys are integers: in
\* ascending numeric order, whatever the order of insertion
RECURSIVE IntegerKeys(_)
IntegerKeys(S) ==
  IF S = {} THEN <<>>
  ELSE LET m == CHOOSE x \in S : \A y \in S : x <= y
       IN <<m>> \o IntegerKeys(S \ {m})

\* groupedAnalyses[count]: the rows of the page with that count, as pushed
RECURSIVE Pushed(_, _)
Pushed(rows, c) ==
  IF rows = <<>> THEN <<>>
  ELSE IF Head(rows).count = c THEN <<Head(rows).idx>> \o Pushed(Tail(rows), c)
  ELSE Pushed(Tail(rows), c)

\* interviewResults: one entry per key of groupedAnalyses
InterviewResults(rows) ==
  LET keys == IntegerKeys({ rows[i].count : i \in DOMAIN rows })
  IN [k \in DOMAIN keys |->
        [count |-> keys[k],
         status |-> SessionStatus(Len(Pushed(rows, keys[k]))),
         total |-> Len(Pushed(rows, keys[k])),
         samples |-> Pushed(rows, keys[k])]]

\* the answer for the user u: the page of the user's rows, grouped
HistoryPage(u, page, limit) ==
  [user |-> u, page |-> page, limit |-> limit,
   total |-> Cardinality({ a \in analyses : a.user = u }),
   interview_results |->
     InterviewResults(Paged(SortRows({ a \in analyses : a.user = u }),
                            (page - 1) * limit, limit))]

GetHistoryPage ==
  /\ outcome = NoDoc
  /\ reqQuery # NoDoc
  /\ outcome' = HistoryPage(reqQuery.user, reqQuery.page, reqQuery.limit)
  /\ UNCHANGED << store, kind, who, body, pc, cnt, status, snap, target, resp,
                  incBy, avgBy, fault, analysisResults, averageDoc, reqBody >>
  /\ UNCHANGED ext

\* the rows of n samples a submission of u wrote under the count c
SessionRows(u, c, n) ==
  { [user |-> u, count |-> c, idx |-> i, by |-> 0] : i \in 1..n }

\* u1 has two sessions of 1 to MaxSamples samples, u2 one of 6;
\* req.query.page and req.query.limit are sent (no period)
InitHistory ==
  /\ users = [u \in Users |-> IF u = "u1" THEN 2 ELSE 1]
  /\ interviews = {}
  /\ \E n1, n2 \in 1..MaxSamples :
       analyses = SessionRows("u1", 1, n1) \cup SessionRows("u1", 2, n2)
                    \cup SessionRows("u2", 1, RequiredAnalyses)
  /\ averages = {}
  /\ results = {}
  /\ NoRequests
  /\ analysisResults = <<>>
  /\ averageDoc = NoDoc
  /\ reqBody = NoDoc
  /\ outcome = NoDoc
  /\ strictQuery = FALSE
  /\ userDocs = {}
  /\ reqQuery \in [user : Users, page : 1..3, limit : {2, 4, 6, 20}]
  /\ reqHeader = NoDoc

SpecHistory == InitHistory /\ [][GetHistoryPage]_vars

\* ------------------- POST /api/users/increment-count (findById and save)
\* User.findById: 404 without the user; the count read is kept in the document
IncrementRead(r) ==
  /\ Fresh(r)
  /\ \E u \in Requesters :
       /\ Issue(r, "incrementSave", u, NoBody)
       /\ IF u \notin Users
          THEN Respond(r, 404) /\ UNCHANGED cnt
          ELSE /\ cnt' = [cnt EXCEPT ![r] = users[u]]
               /\ Goto(r, "save")
               /\ UNCHANGED << snap, target >>
  /\ UNCHANGED << store, resp, incBy, avgBy, fault >>
  /\ UNCHANGED calc

\* user.count = (user.count || 0) + 1; user.save() sets the count; 200 with
\* currentCount
IncrementSave(r) ==
  /\ kind[r] = "incrementSave" /\ pc[r] = "save"
  /\ users' = [users EXCEPT ![who[r]] = cnt[r] + 1]
  /\ cnt' = [cnt EXCEPT ![r] = cnt[r] + 1]
  /\ Respond(r, 200)
  /\ UNCHANGED << interviews, analyses, averages, results, kind, who, body,
                  resp, incBy, avgBy, fault >>
  /\ UNCHANGED calc

\* user.save() throws: 500
IncrementError(r) ==
  /\ kind[r] = "incrementSave" /\ pc[r] = "save"
  /\ Respond(r, 500)
  /\ fault' = fault \cup {r}
  /\ UNCHANGED << store, kind, who, body, cnt, resp, incBy, avgBy >>
  /\ UNCHANGED calc

\* the store before the run: every user has submitted one Q&A session or none
InitIncrement ==
  /\ users \in [Users -> 0..SeedCount]
  /\ interviews = UNION { SeedInterviews(u) : u \in { v \in Users : users[v] = SeedCount } }
  /\ analyses = {}
  /\ averages = {}
  /\ results = {}
  /\ NoRequests
  /\ NotRun
  /\ strictQuery = FALSE
  /\ userDocs = {}
  /\ reqQuery = NoDoc
  /\ reqHeader = NoDoc

\* one variant of the route is deployed: the requests of a run are all served
\* by the atomic handler or all by the handler that reads and saves
NextIncrement ==
  \E r \in Req :
    \/ IncrementCount(r) /\ \A q \in Req : kind[q] # "incrementSave"
    \/ IncrementRead(r) /\ \A q \in Req : kind[q] # "incrementCount"
    \/ IncrementSave(r)
    \/ IncrementError(r)

SpecIncrement == InitIncrement /\ [][NextIncrement]_vars

\* ----------- GET /api/analysis/detail and PUT /api/analysis/update-score
\* the face_analysis rows before the run, with the emotion scores of their
\* first result as the submission sent them
ScoredRows ==
  { [user |-> u, count |-> SeedCount, idx |-> 1, by |-> 0, emotion |-> "sent"] :
      u \in Users }

\* the _id of a row, and the ids a request may name: those of the rows and
\* one that no row has
RowId(a) == << a.user, a.count, a.idx >>
RowIds == { RowId(a) : a \in ScoredRows } \cup {<< "u1", 0, 0 >>}

\* Analysis.findById: the row, or NoDoc for null
FindById(id) ==
  IF \E a \in analyses : RowId(a) = id
  THEN CHOOSE a \in analyses : RowId(a) = id
  ELSE NoDoc

\* (variant: every user passes the ownership check)
OwnsAny(a, u) == TRUE

\* analysis.userId.toString() === req.user.user_id
Owns(a, u) == a.user = u

\* the answer of GET /detail?id=
Analysed(u, id) ==
  LET a == FindById(id)
  IN IF a = NoDoc
     THEN [view |-> "analysis", user |-> u, id |-> id, status |-> 404,
           data |-> NoDoc]
     ELSE IF ~Owns(a, u)
     THEN [view |-> "analysis", user |-> u, id |-> id, status |-> 403,
           data |-> NoDoc]
     ELSE [view |-> "analysis", user |-> u, id |-> id, status |-> 200,
           data |-> a]

GetAnalysisDetail(u, id) ==
  /\ resp' = Analysed(u, id)
  /\ UNCHANGED << store, kind, who, body, pc, cnt, status, snap, target,
                  incBy, avgBy, fault >>
  /\ UNCHANGED calc

\* startTransaction, validationResult, Analysis.findById and the ownership
\* check: abort and 400, 404 or 403; req.body.emotion_scores is not sent
\* ("none"), valid, or rejected by the validation
UpdateScore(r) ==
  /\ Fresh(r)
  /\ \E u \in Requesters, id \in RowIds,
        e \in {"none", "edited", "invalid"} :
       /\ Issue(r, "updateScore", u, [id |-> id, emotion_scores |-> e])
       /\ IF e = "invalid" THEN Respond(r, 400) /\ Transact(r, "aborted")
          ELSE IF FindById(id) = NoDoc
          THEN Respond(r, 404) /\ Transact(r, "aborted")
          ELSE IF ~Owns(FindById(id), u)
          THEN Respond(r, 403) /\ Transact(r, "aborted")
          ELSE /\ Goto(r, "save") /\ UNCHANGED << snap, target >>
               /\ Transact(r, "open")
  /\ UNCHANGED << store, cnt, resp, incBy, avgBy, fault >>
  /\ UNCHANGED << alone, strictQuery, userDocs, reqQuery,
                  reqHeader >>

\* analysis.save({ session }): buffered; it waits while another update of
\* the same row has saved inside its open transaction
UpdateScoreSave(r) ==
  /\ kind[r] = "updateScore" /\ pc[r] = "save"
  /\ ~\E q \in Req \ {r} :
         kind[q] = "updateScore" /\ pc[q] = "commit" /\ body[q].id = body[r].id
  /\ Goto(r, "commit")
  /\ UNCHANGED << store, kind, who, body, cnt, snap, target, resp, incBy,
                  avgBy, fault >>
  /\ UNCHANGED calc

\* session.commitTransaction(): analysis_result[0].emotion is replaced when
\* emotion_scores was sent (result is no path of analysisSchema and is not
\* stored); 200
UpdateScoreCommit(r) ==
  /\ kind[r] = "updateScore" /\ pc[r] = "commit"
  /\ analyses' =
       { IF RowId(a) = body[r].id /\ body[r].emotion_scores # "none"
         THEN [a EXCEPT !.emotion = body[r].emotion_scores] ELSE a :
           a \in analyses }
  /\ Respond(r, 200)
  /\ Transact(r, "committed")
  /\ UNCHANGED << users, interviews, averages, results, kind, who, body, cnt,
                  resp, incBy, avgBy, fault >>
  /\ UNCHANGED << alone, strictQuery, userDocs, reqQuery,
                  reqHeader >>

\* the store throws: catch, abortTransaction, 500
UpdateScoreError(r) ==
  /\ kind[r] = "updateScore" /\ pc[r] \in {"save", "commit"}
  /\ Respond(r, 500)
  /\ Transact(r, "aborted")
  /\ fault' = fault \cup {r}
  /\ UNCHANGED << store, kind, who, body, cnt, resp, incBy, avgBy >>
  /\ UNCHANGED << alone, strictQuery, userDocs, reqQuery,
                  reqHeader >>

InitOwner ==
  /\ users = [u \in Users |-> SeedCount]
  /\ interviews = {}
  /\ analyses = ScoredRows
  /\ averages = {}
  /\ results = {}
  /\ NoRequests
  /\ NotRun
  /\ strictQuery = FALSE
  /\ userDocs = {}
  /\ reqQuery = NoDoc
  /\ reqHeader = NoDoc

NextOwner ==
  \/ \E r \in Req :
       \/ UpdateScore(r)
       \/ UpdateScoreSave(r)
       \/ UpdateScoreCommit(r)
       \/ UpdateScoreError(r)
  \/ \E u \in Requesters, id \in RowIds : GetAnalysisDetail(u, id)

SpecOwner == InitOwner /\ [][NextOwner]_vars

\* ------------------------------------------------------ the auth middleware
\* the Authorization header of a request: absent, 'Bearer ' alone, or a token
\* sent with or without the 'Bearer ' prefix; format says whether the token
\* has the three dot-separated parts of isValidJWTFormat, alg is the
\* algorithm of its header, signed whether its signature is the secret's,
\* early whether its nbf lies ahead, expired whether its exp has passed, and
\* user_id and email are its claims ("none" = not in the payload)
Headers ==
  {[scheme |-> "none"], [scheme |-> "empty"]} \cup
  [scheme : {"Bearer", "bare"}, format : BOOLEAN, alg : {"HS256", "HS512"},
   signed : BOOLEAN, early : BOOLEAN, expired : BOOLEAN,
   user_id : {"u1", "none"}, email : {"a@x.io", "none"}]

\* jwt.verify(token, secret, { algorithms: ['HS256'] }): the name of the
\* error it throws, or "decoded"
Verify(t) ==
  IF t.alg # "HS256" THEN "JsonWebTokenError"
  ELSE IF ~t.signed THEN "JsonWebTokenError"
  ELSE IF t.early THEN "NotBeforeError"
  ELSE IF t.expired THEN "TokenExpiredError"
  ELSE "decoded"

\* what the middleware did: the status and code it answered with (0 and
\* "none" when it answered nothing), whether it called next(), and
\* req.user.user_id
Refused(st, c) == [status |-> st, code |-> c, next |-> FALSE, user_id |-> "none"]

\* the middleware: authHeader?.replace('Bearer ', '') is undefined without a
\* header and the empty string for 'Bearer ' alone; the inner catch answers TokenExpiredError and
\* JsonWebTokenError by name and rethrows every other error to the outer
\* catch, which answers 500
Authenticate(h) ==
  IF h.scheme \notin {"Bearer", "bare"} THEN Refused(401, "AUTH_MISSING_TOKEN")
  ELSE IF ~h.format THEN Refused(401, "AUTH_INVALID_FORMAT")
  ELSE IF Verify(h) = "TokenExpiredError" THEN Refused(401, "AUTH_TOKEN_EXPIRED")
  ELSE IF Verify(h) = "JsonWebTokenError" THEN Refused(401, "AUTH_INVALID_TOKEN")
  ELSE IF Verify(h) # "decoded" THEN Refused(500, "AUTH_INTERNAL_ERROR")
  ELSE IF h.user_id = "none" \/ h.email = "none"
  THEN Refused(500, "AUTH_INTERNAL_ERROR")
  ELSE [status |-> 0, code |-> "none", next |-> TRUE, user_id |-> h.user_id]

Auth ==
  /\ outcome = NoDoc
  /\ reqHeader # NoDoc
  /\ outcome' = Authenticate(reqHeader)
  /\ UNCHANGED << store, kind, who, body, pc, cnt, status, snap, target, resp,
                  incBy, avgBy, fault, analysisResults, averageDoc, reqBody >>
  /\ UNCHANGED ext

InitAuth ==
  /\ users = [u \in Users |-> 0]
  /\ interviews = {}
  /\ analyses = {}
  /\ averages = {}
  /\ results = {}
  /\ NoRequests
  /\ NotRun
  /\ strictQuery = FALSE
  /\ userDocs = {}
  /\ reqQuery = NoDoc
  /\ reqHeader \in Headers

SpecAuth == InitAuth /\ [][Auth]_vars

\* ---------------------------------------------------------- specifications
\* the two transactional submission handlers
NextTx ==
  \E r \in Req :
    \/ SubmitReject(r)
    \/ SubmitInc(r)
    \/ SubmitAverage(r)
    \/ SubmitAnalyses(r)
    \/ SubmitInterview(r)
    \/ SubmitCommit(r)
    \/ SubmitError(r)
    \/ SubmitQAReject(r)
    \/ SubmitQAInc(r)
    \/ SubmitQAInterview(r)
    \/ SubmitQACommit(r)
    \/ SubmitQAError(r)

SpecTx == Init /\ [][NextTx]_vars

\* every submission handler, with and without transaction
NextSubmit ==
  \/ NextTx
  \/ \E r \in Req :
       \/ LegacyInc(r)
       \/ LegacySave(r)
       \/ LegacyError(r)

SpecSubmit == Init /\ [][NextSubmit]_vars

\* the submission with analysis data and the combined query
NextQuery ==
  \/ \E r \in Req :
       \/ SubmitReject(r)
       \/ SubmitInc(r)
       \/ SubmitAverage(r)
       \/ SubmitAnalyses(r)
       \/ SubmitInterview(r)
       \/ SubmitCommit(r)
       \/ SubmitError(r)
  \/ \E u \in Requesters, c \in 1..MaxReq : GetCombined(u, c)

SpecQuery == Init /\ [][NextQuery]_vars

\* the submissions whose sessions the queries are shown: sent by a user
\* with an account, accepted by both validations and free of a malformed
\* sample (six samples or five)
ViewBodies ==
  { b \in Bodies :
      ValidSubmission(b) /\ ~DuplicateOrders(b) /\ ~MalformedSample(b) }

Viewed(r) == who'[r] \in Users /\ body'[r] \in ViewBodies

\* the queries on the sessions that the two transactional handlers write, one
\* submission after the other on a store that does not fail (what overlapping
\* or failing submissions leave in the store is, by SpecTx, all or nothing of
\* each)
NextView ==
  \/ \E r \in Req :
       \/ Quiescent /\ SubmitInc(r) /\ Viewed(r)
       \/ SubmitAverage(r)
       \/ SubmitAnalyses(r)
       \/ SubmitInterview(r)
       \/ SubmitCommit(r)
       \/ Quiescent /\ SubmitQAInc(r) /\ Viewed(r)
       \/ SubmitQAInterview(r)
       \/ SubmitQACommit(r)
  \/ \E u \in Requesters, c \in 1..MaxReq :
       \/ GetCombined(u, c)
       \/ GetCurrent(u, c)
       \/ GetDetail(u, c)
       \/ GetResult(u, c)
  \/ \E u \in Requesters :
       \/ GetHistory(u)
       \/ GetStatistics(u)
       \/ GetInterviewHistory(u)

SpecView == Init /\ [][NextView]_vars

\* every submission handler and the atomic increment-count
NextCounts ==
  \/ NextSubmit
  \/ \E r \in Req : IncrementCount(r)

SpecCounts == Init /\ [][NextCounts]_vars

\* every handler
Next ==
  \/ NextSubmit
  \/ \E r \in Req : IncrementCount(r)
  \/ \E u \in Requesters, c \in 1..MaxReq : GetCombined(u, c)

Spec == Init /\ [][Next]_vars

TypeOK ==
  /\ users \in [Users -> 0..MaxReq]
  /\ \A r \in Req :
       cnt[r] \in 0..MaxReq /\ status[r] \in {0, 200, 201, 400, 404, 500}

\* ------------------------------------------------------------------ claims
Transactional(r) == kind[r] \in TxKinds
Ended(r) == status[r] # 0

\* what a reader outside the transaction sees of the submission r
Effects(r) ==
  (IF r \in incBy THEN {<<"count", 0>>} ELSE {})
  \cup (IF r \in avgBy THEN {<<"average", 0>>} ELSE {})
  \cup { <<"interview", 0>> : i \in { x \in interviews : x.by = r } }
  \cup { <<"analysis", a.idx>> : a \in { x \in analyses : x.by = r } }

\* everything the submission r writes
AllEffects(r) ==
  {<<"count", 0>>, <<"interview", 0>>}
  \cup (IF kind[r] = "submit"
        THEN {<<"average", 0>>}
             \cup { <<"analysis", i>> : i \in DOMAIN body[r].analysis }
        ELSE {})

\* C1: at every moment the store shows, of each transactional submission,
\* either all of its effects (count increment, one Analysis row per sample,
\* the average upsert, the Interview row, all for its count) or none: all of
\* them once it answered 201, none once it answered an error
C1_Atomic ==
  \A r \in Req : Transactional(r) =>
    /\ Effects(r) \in {{}, AllEffects(r)}
    /\ status[r] = 201 => Effects(r) = AllEffects(r)
    /\ status[r] \notin {0, 201} => Effects(r) = {}
    /\ \A x \in interviews \cup analyses :
         x.by = r => x.count = cnt[r] /\ x.user = who[r]

\* a submission that failed after its increment next to a committed one
C1_Witness ==
  \E r, q \in Req :
    /\ kind[r] = "submit" /\ status[r] = 500 /\ cnt[r] > 0
    /\ kind[q] = "submit" /\ status[q] = 201
    /\ Cardinality(AllEffects(q)) >= 4

\* C2: no two Interview rows of one user share an interview_count, no two
\* sibling-record sets of one user share a count, and a row is written only
\* under the count the writer's own increment returned, which is one above
\* the stored count for as long as its transaction is open
C2_UniqueCounts ==
  /\ \A i, j \in interviews :
       i.user = j.user /\ i.count = j.count => i = j
  /\ \A a, b \in analyses :
       a.user = b.user /\ a.count = b.count => a.by = b.by
  /\ \A x \in interviews \cup analyses :
       x.count = cnt[x.by] /\ x.count >= 1 /\ x.by \in incBy
  /\ \A r \in Req : InTransaction(r) => cnt[r] = users[who[r]] + 1

\* two overlapping submissions of one user: one committed, the other one was
\* refused the increment
C2_Witness ==
  \E r, q \in Req :
    /\ r # q /\ who[r] = who[q] /\ who[r] \in Users
    /\ Transactional(r) /\ status[r] = 201
    /\ Transactional(q) /\ status[q] = 500 /\ cnt[q] = 0

CountsOf(u) == { i.count : i \in { x \in interviews : x.user = u } }

\* C3: the interview_count values of a user's Interview rows are exactly
\* 1..user.count (unique and gap-free) whenever no submission is in flight
C3_GapFree ==
  Quiescent =>
    /\ \A u \in Users : CountsOf(u) = 1..users[u]
    /\ \A i, j \in interviews : i.user = j.user /\ i.count = j.count => i = j

\* C4: the step by which a transactional submission fails after its
\* increment leaves the stored count at its value before the request, one
\* below the count the request had been given
C4_FailureRestoresCount ==
  [][\A r \in Req :
       (Transactional(r) /\ pc[r] \in OpenPcs /\ status'[r] \notin {0, 201})
         => users'[who[r]] = cnt[r] - 1]_vars

\* a submission failed after its increment and the retry got the same count
C4_Witness ==
  \E r, q \in Req :
    /\ r < q /\ who[r] = who[q]
    /\ Transactional(r) /\ status[r] = 500 /\ cnt[r] > 0
    /\ Transactional(q) /\ status[q] = 201 /\ cnt[q] = cnt[r]

\* C5: after a committed submission with analysis data the Interview row, the
\* Analysis rows, the EmotionAverage row and the Result row exist under the
\* count of the response, which is the user's count after the increment
C5_FourRecords ==
  \A r \in Req : (kind[r] = "submit" /\ status[r] = 201) =>
    /\ \E i \in interviews : i.user = who[r] /\ i.count = cnt[r]
    /\ \A k \in DOMAIN body[r].analysis :
         \E a \in analyses : a.user = who[r] /\ a.count = cnt[r] /\ a.idx = k
    /\ \E a \in averages : a.count = cnt[r]
    /\ \E x \in results : x.user = who[r] /\ x.count = cnt[r]
    /\ r \in incBy

\* C6: every step that changes a user's count is a step of a submission
C6_OnlySubmitChangesCount ==
  [][\A u \in Users : users'[u] # users[u] =>
       \E r \in Req :
         /\ kind'[r] \in {"submit", "submitQA", "submitLegacy"}
         /\ who'[r] = u /\ pc'[r] # pc[r]]_vars

\* C7: the average the combined query returns to a user for a count is the
\* one computed from that user's own samples of that count
C7_AverageOfOwnSamples ==
  (resp.status = 200 /\ resp.average # 0) =>
    /\ who[resp.average] = resp.user
    /\ cnt[resp.average] = resp.count

\* what the validation of a submission with analysis data has to refuse
InvalidSubmission(b) ==
  \/ Len(b.orders) # QACount
  \/ \E i \in DOMAIN b.orders : b.orders[i] \notin MinOrder..MaxOrder
  \/ Cardinality(Range(b.orders)) # Len(b.orders)
  \/ b.score \notin MinScore..MaxScore
  \/ Len(b.analysis) = 0
  \/ \E i \in DOMAIN b.analysis : b.analysis[i] = 0

\* the request r of an existing user is the only one issued so far, and the
\* store did not fail under it
Alone(r) ==
  /\ who[r] \in Users /\ r \notin fault
  /\ \A q \in Req \ {r} : kind[q] = "none"

\* C8: a submission that fails validation (here: sent by an existing user, no
\* other request around, no store error) is answered 4xx before the handler
\* has issued any write (its increment included), and nothing of it is stored
C8_ValidationBeforeWrite ==
  \A r \in Req :
    (kind[r] = "submit" /\ InvalidSubmission(body[r]) /\ Ended(r)
       /\ Alone(r)) =>
      /\ status[r] \in 400..499
      /\ cnt[r] = 0
      /\ Effects(r) = {}

\* C9: a submission of three entries whose orders are not pairwise distinct
\* (here: sent by an existing user, no other request around, no store error)
\* is answered 4xx and writes nothing
C9_DuplicateOrderRejected ==
  \A r \in Req :
    (Transactional(r) /\ Len(body[r].orders) = 3 /\ DuplicateOrders(body[r])
       /\ Ended(r) /\ Alone(r)) =>
      /\ status[r] \in 400..499
      /\ cnt[r] = 0
      /\ Effects(r) = {}

\* C10: every stored Interview row holds exactly 3 entries whose orders are
\* exactly {1, 2, 3}
C10_OrdersOneTwoThree ==
  \A i \in interviews : Len(i.orders) = 3 /\ Range(i.orders) = {1, 2, 3}

\* C11: the Interview row of every accepted submission holds the submitted
\* entries sorted by ascending order, and its order sequence is [1, 2, 3]
C11_StoredSorted ==
  \A r \in Req : status[r] = 201 =>
    \A i \in interviews :
      i.by = r => /\ i.orders = SortByOrder(body[r].orders)
                  /\ i.orders = <<1, 2, 3>>

\* ------------------------------------------------- claims on the aggregation
Aggregated == averageDoc # NoDoc
NumResults == Len(analysisResults)

\* v is a multiple of 10^-d nearest to total / n
RoundedMean(v, total, n, d) ==
  /\ v % Pow10(4 - d) = 0
  /\ 2 * v * n - n * Pow10(4 - d) <= 2 * total
  /\ 2 * total <= 2 * v * n + n * Pow10(4 - d)

\* v is total / n rounded half-up to d decimal places
RoundedHalfUp(v, total, n, d) ==
  /\ RoundedMean(v, total, n, d)
  /\ 2 * total < 2 * v * n + n * Pow10(4 - d)

\* C12: the stored face confidence is the mean of the samples' confidences
\* rounded half-up to 3 decimal places
C12_ConfidenceThreeDecimals ==
  Aggregated =>
    RoundedHalfUp(averageDoc.face_confidence,
                  TotalConfidence(analysisResults, NumResults), NumResults, 3)

\* the samples all carry the emotion vector e
ConstantVector(e) ==
  \A i \in DOMAIN analysisResults : analysisResults[i].emotion = e

\* a sample lacks one of the 7 emotion keys
LacksKey ==
  \E i \in DOMAIN analysisResults :
    DOMAIN analysisResults[i].emotion # EmotionKeys

\* C13: (of samples that carry all 7 keys) for each of the 7 emotion keys the
\* stored average is the mean over all samples rounded to 3 decimals, the
\* stored sample count is the number of samples, and a vector common to all
\* samples is stored as it is
C13_EmotionMeans ==
  (Aggregated /\ ~LacksKey) =>
    /\ \A k \in EmotionKeys :
         RoundedMean(averageDoc.emotion[k],
                     CurrentEmotion(analysisResults, k, NumResults),
                     NumResults, 3)
    /\ "total_analyses" \in DOMAIN averageDoc
    /\ averageDoc.total_analyses = NumResults
    /\ \A e \in {Calm, Tense} : ConstantVector(e) => averageDoc.emotion = e

\* C14: when a sample lacks one of the 7 emotion keys the aggregation fails
\* and stores nothing
C14_MissingKeyFails == LacksKey => ~Aggregated

\* ---------------------------------------------------- claims on submissions
\* C15: a submission with analysis data whose list of samples is empty is
\* answered 4xx; it is given no count and nothing of it (count increment,
\* EmotionAverage, Analysis or Interview row) is ever in the store
C15_EmptyAnalysesRejected ==
  \A r \in Req :
    (kind[r] = "submit" /\ body[r].analysis = <<>>) =>
      /\ status[r] \in 400..499
      /\ cnt[r] = 0
      /\ Effects(r) = {}

\* a submission of an existing user that is valid but for its empty list of
\* samples has been refused
C15_Witness ==
  \E r \in Req :
    /\ kind[r] = "submit" /\ who[r] \in Users
    /\ body[r].analysis = <<>> /\ ValidSubmissionQA(body[r])
    /\ ~DuplicateOrders(body[r])
    /\ status[r] = 400 /\ users[who[r]] = 0

\* round(mean(score_1, score_2, score_3), 1) half-up, in tenths
ServerMeanScore(qs) == (20 * (qs[1] + qs[2] + qs[3]) + 3) \div 6

\* the declared mean_score is within 0.1 of the server's
MeanScoreMatches(b) ==
  \/ b.mean_score = Absent
  \/ /\ b.mean_score - ServerMeanScore(b.scores) <= 1
     /\ ServerMeanScore(b.scores) - b.mean_score <= 1

\* C16: a submission that passes the validation of its other fields is
\* accepted if and only if its declared mean_score is within 0.1 of the mean
\* of its three scores rounded to 1 decimal; a refused one stores nothing
C16_MeanScoreChecked ==
  (outcome # NoDoc /\ ValidSubmission(reqBody)) =>
    /\ outcome.status = 201 <=> MeanScoreMatches(reqBody)
    /\ outcome.status # 201 => outcome.interview = NoDoc

\* ------------------------------------------------------ claims on the queries
SingleViews == {"combined", "current"}
CountViews == {"combined", "current", "detail", "result"}

\* the number of Analysis rows the user u has under the count c
Rows(u, c) == Cardinality(FindAnalyses(u, c))

\* C17: in every answer of the two single-session views the status field is
\* 'completed' exactly when the requesting user's Analysis rows of that count
\* number 6 or more, 'in_progress' otherwise, and total_analyses is that
\* number of rows
C17_StatusFromRowCount ==
  (resp.status = 200 /\ resp.view \in SingleViews) =>
    /\ resp.total_analyses = Rows(resp.user, resp.count)
    /\ resp.state \in {"completed", "in_progress"}
    /\ resp.state = "completed" <=> Rows(resp.user, resp.count) >= 6

\* a user has a session of 5 samples and one of 6, and the current view has
\* answered 'completed' for the latter
C17_Witness ==
  /\ resp.view = "current" /\ resp.status = 200
  /\ resp.state = "completed" /\ resp.total_analyses = 6
  /\ \E c \in 1..MaxReq : Rows(resp.user, c) = 5

\* the number of rows of the session the last answer is about
AnsweredRows == Rows(resp.user, resp.count)

Requery ==
  CASE resp.view = "combined" -> Combined(resp.user, resp.count)
    [] resp.view = "current" -> Current(resp.user, resp.count)
    [] resp.view = "detail" -> Detail(resp.user, resp.count)
    [] resp.view = "result" -> Result(resp.user, resp.count)
    [] resp.view = "history" -> History(resp.user)
    [] resp.view = "statistics" -> Statistics(resp.user)
    [] resp.view = "interviews" -> InterviewHistory(resp.user)

NoSessionData(u, c) ==
  /\ FindInterview(u, c) = {}
  /\ FindAnalyses(u, c) = {}
  /\ \A x \in results : ~(x.user = u /\ x.count = c)

Closed(v) ==
  \E r \in Req : kind[r] \in DeleteKinds /\ who[r] = v /\ status[r] = 200

\* a deletion by v is between two store operations
Closing(v) ==
  \E r \in Req :
    kind[r] \in DeleteKinds /\ who[r] = v /\ pc[r] \notin {"idle", "done"}

\* C21: once a deletion by a user was answered 200, the user's row and all
\* the user's Analysis rows are gone; a user none of whose deletions was
\* answered 200 (password missing or wrong, or a failure midway) and none of
\* whose deletions is running has the User row and every Analysis row
C21_AccountDeletion ==
  \A v \in Users :
    /\ Closed(v) =>
         users[v] = Absent /\ { a \in analyses : a.user = v } = {}
    /\ (~Closed(v) /\ ~Closing(v)) =>
         users[v] = SeedCount /\ { a \in analyses : a.user = v } = SeedAnalyses(v)

\* the registration ended while another request's row has its email, and not
\* because the store failed for another reason
Lost(r) ==
  /\ kind[r] = "register" /\ pc[r] = "done" /\ r \notin fault
  /\ \E x \in userDocs : x.by # r /\ x.email = NewUser(r).email

\* C22: no two User rows have the same lowercased email, a request that
\* reports the creation of a user has created the one row of its email, and
\* a registration that lost is answered 400 ('Email already exists')
C22_UniqueEmails ==
  /\ \A x, y \in userDocs : x.email = y.email => x = y
  /\ \A x \in userDocs : x.email = Lower(x.email)
  /\ \A r \in Req :
       (kind[r] = "register" /\ status[r] = 201) => NewUser(r) \in userDocs
  /\ \A r \in Req : Lost(r) => status[r] = 400

\* C23: the emotion_averages collection has at most one row per count, and
\* every row was written by a committed submission of its count
C23_OneAveragePerKey ==
  /\ \A a, b \in averages : a.count = b.count => a = b
  /\ \A a \in averages :
       /\ a.by \in Req /\ status[a.by] = 201 /\ cnt[a.by] = a.count

\* the history handler has answered
Listed == outcome # NoDoc /\ reqQuery # NoDoc

\* C24: every session group of a history page is 'completed' exactly when
\* the user has 6 or more Analysis rows of that count in the store, and its
\* progress.total is the number of those rows
C24_GroupStatusFromStore ==
  Listed =>
    \A k \in DOMAIN outcome.interview_results :
      LET g == outcome.interview_results[k]
      IN /\ g.total = Rows(outcome.user, g.count)
         /\ g.status = "completed" <=> Rows(outcome.user, g.count) >= 6

\* C25: the session groups of a history page come with strictly descending
\* count, and the samples of a group with descending timestamp
C25_GroupsDescending ==
  Listed =>
    LET gs == outcome.interview_results
    IN /\ \A j, k \in DOMAIN gs : j < k => gs[j].count > gs[k].count
       /\ \A k \in DOMAIN gs :
            \A i, j \in DOMAIN gs[k].samples :
              i < j => gs[k].samples[i] > gs[k].samples[j]

\* the handlers whose transaction the model follows
Transacting == {"register", "kakao", "deleteTx", "updateScore"}

\* C26: when a handler that opened a transaction has answered, it has
\* committed or aborted the transaction itself, and it has answered with a
\* success status only after the commit
C26_TransactionsEnded ==
  \A r \in Req :
    (kind[r] \in Transacting /\ status[r] # 0) =>
      /\ txn[r] \in {"committed", "aborted"}
      /\ status[r] \in 200..299 => txn[r] = "committed"

\* the increment-count requests of u that were answered 200
Incremented(u) ==
  { r \in Req : kind[r] \in {"incrementCount", "incrementSave"} /\ who[r] = u /\ status[r] = 200 }

\* C27: once the increment-count requests have ended, the count of every
\* user has grown (from the number of sessions the user had submitted) by
\* the number of the user's requests answered 200, and no two of them
\* returned the same currentCount
C27_NoLostUpdate ==
  Quiescent =>
    \A u \in Users :
      /\ users[u] = Cardinality({ i \in interviews : i.user = u })
                      + Cardinality(Incremented(u))
      /\ \A r, q \in Incremented(u) : cnt[r] = cnt[q] => r = q

Foreign(r) ==
  /\ kind[r] = "updateScore"
  /\ FindById(body[r].id) # NoDoc /\ FindById(body[r].id).user # who[r]
  /\ body[r].emotion_scores # "invalid"

\* C29: a detail query for a row of another user is answered 403 without the
\* row, an update-score for a row of another user is answered 403, and the
\* rows change only in the step in which an update-score of a row's owner is
\* answered 200, and then only in that row (so that an update-score ending
\* in 400, 403, 404 or 500 leaves the rows as they were)
C29_OwnershipEnforced ==
  [][/\ (resp'.view = "analysis" /\ FindById(resp'.id) # NoDoc
           /\ FindById(resp'.id).user # resp'.user)
          => (resp'.status = 403 /\ resp'.data = NoDoc)
     /\ \A r \in Req : (Foreign(r)' /\ status'[r] # 0) => status'[r] = 403
     /\ analyses' # analyses =>
          \E r \in Req :
            /\ kind[r] = "updateScore" /\ status[r] = 0 /\ status'[r] = 200
            /\ body[r].id[1] = who[r]
            /\ \A a \in analyses : RowId(a) # body[r].id => a \in analyses'
            /\ { RowId(a) : a \in analyses' } = { RowId(a) : a \in analyses }]_vars

\* an update of a row by another user was refused, the detail of a row was
\* refused to another user, and the owner's update has changed that row
C29_Witness ==
  /\ \E r \in Req : Foreign(r) /\ status[r] = 403
  /\ \E r \in Req : kind[r] = "updateScore" /\ status[r] = 200
                      /\ body[r].emotion_scores = "edited"
  /\ resp.view = "analysis" /\ resp.status = 403
  /\ \E a \in analyses : a.emotion = "edited" /\ RowId(a) = resp.id

\* the middleware has run
Authenticated == reqHeader # NoDoc /\ outcome # NoDoc

\* the request carries a token that is well-formed, verifies under HS256, is
\* not expired and has both claims
GoodToken(h) ==
  /\ h.scheme \in {"Bearer", "bare"}
  /\ h.format /\ h.alg = "HS256" /\ h.signed /\ ~h.early /\ ~h.expired
  /\ h.user_id # "none" /\ h.email # "none"

\* C30: the middleware calls next() exactly for a request with such a token,
\* with the token's user_id as req.user.user_id, and answers every other
\* request with 401 and an AUTH_ code without calling next()
C30_AuthGate ==
  Authenticated =>
    /\ outcome.next <=> GoodToken(reqHeader)
    /\ outcome.next => outcome.user_id = reqHeader.user_id
    /\ ~outcome.next => outcome.status = 401

====
